---- MODULE Spec2Model ----
(***************************************************************************)
(* Stock-Market-Simulator: the price generators of utils/priceUtils.js,    *)
(* the domain calculation of utils/chartUtils.js and the state machine of  *)
(* components/StockMarketSimulator.jsx (window, animation flag, stored     *)
(* y-domain, pending setTimeout reveals), with the scene that the render   *)
(* effect keeps through initializeChart, setupCrosshair and renderCandles. *)
(*                                                                         *)
(* Prices are JavaScript numbers in the code.  Here they are fixed-point   *)
(* integers in units of 0.001 (one "mill"), so that 0.01 is 10, a value    *)
(* strictly between 0 and 0.01 exists, and toFixed(2) is a real rounding.  *)
(* Dates are day numbers (one unit = 86400000 ms, no daylight saving).     *)
(* Every Math.random() result is an explicit draw passed to the operators. *)
(***************************************************************************)
EXTENDS Integers, Sequences, FiniteSets, TLC

VARIABLES
    entry,        \* "component": StockMarketSimulator is mounted; "priceUtils": the exported generators are called directly;
                  \* "chartUtils": a chart is set up directly and receives pointer events
    data,         \* useState data: the window of candles
    isAnimating,  \* useState isAnimating
    yDomain,      \* useState yDomain: Null or <<min, max>>
    timers,       \* pending setTimeout callbacks, in creation order
    run,          \* the last accepted handlePriceAction call (history)
    revealLog,    \* <<run id, path index>> of every reveal so far (history)
    lastOp,       \* the last operation that ran (history)
    genCall,      \* priceUtils entry: the arguments of the last generator call
    genOut,       \* priceUtils entry: the sequence that call returned
    container,    \* what getBoundingClientRect() returned for the element of containerRef when the effect last measured it (history)
    chart,        \* the svg: whether initializeChart has built it, and the g.candle nodes of .candles-container
    effects,      \* the runs of the render effect made by the last operation (history)
    elapsed,      \* milliseconds since the last accepted handlePriceAction call (history)
    crosshair,    \* the .crosshair group: its display style and the position of its lines
    listeners,    \* the mousemove / mouseleave listeners of the svg and the bounds they closed over
    pointer       \* the last pointer event dispatched to the svg (history)

vars == <<entry, data, isAnimating, yDomain, timers, run, revealLog, lastOp, genCall, genOut,
          container, chart, effects, elapsed, crosshair, listeners, pointer>>

genVars == <<genCall, genOut>>
pointerVars == <<crosshair, listeners, pointer>>

----------------------------------------------------------------------------
(* Program constants, in mills / days / milliseconds.                      *)

PriceFloor == 10            \* 0.01
InitFloor == 10000          \* Math.max(10, close)
DefaultDays == 60           \* generateInitialData(60, 100)
DefaultStartingPrice == 100000
Period == 5                 \* const period = 5
PriceChange == 20000        \* const priceChange = 20
WindowKeep == 59            \* prevData.slice(-59)
DomainTail == 50            \* data.slice(-50)
StepDelayMs == 400          \* (index + 1) * 400
PaddingDiv == 10            \* (maxPrice - minPrice) * 0.1
ExitFadeMs == 200           \* candles.exit().transition().duration(200)
MarginTop == 20             \* margin = { top: 20, right: 60, bottom: 40, left: 60 }
MarginRight == 60
MarginBottom == 40
MarginLeft == 60
LabelInset == 30            \* Math.min(innerWidth - 30, Math.max(30, mx))

(* Bounds of the model.                                                    *)

MaxRuns == 2                \* accepted triggers per behaviour
TickMs == 200               \* the longest stretch of time one Tick lets pass
MaxSteps == 2               \* periodInDays of a direct generatePriceAction call
MaxDays == 3                \* days of a direct generateInitialData call
Today == 1000               \* the day number of new Date()

Null == <<>>

Max(a, b) == IF a >= b THEN a ELSE b
Min(a, b) == IF a <= b THEN a ELSE b
Abs(a) == IF a < 0 THEN -a ELSE a

----------------------------------------------------------------------------
(* Random draws.  getRandom(min, max) = Math.random() * (max - min) + min  *)
(* lies in [min, max); each set below holds values of that range.          *)

\* one day of generateInitialData: getRandom(-5, 5), getRandom(0, 5), getRandom(0, 5)
InitFall == [delta |-> -5000, up |-> 0, dn |-> 4999]
InitRise == [delta |-> 4999, up |-> 4999, dn |-> 0]
InitFlat == [delta |-> 4, up |-> 1, dn |-> 9]
InitDraws == {InitFall, InitRise}

\* one day of generatePriceAction: getRandom(-8, 8), getRandom(0.1, 0.5),
\* Math.random() > 0.5 ? 1 : -1, getRandom(0, 5), getRandom(0, 5)
DrawLo == [move |-> -8000, nudge |-> 100, sign |-> 1, up |-> 0, dn |-> 4999]
DrawHi == [move |-> 7999, nudge |-> 499, sign |-> -1, up |-> 4999, dn |-> 0]
RunDraws == {DrawLo, DrawHi}

PathDraws ==
    { [move |-> m, nudge |-> n.mag, sign |-> n.sign, up |-> w.up, dn |-> w.dn] :
        m \in {-8000, 3, 7999},
        n \in {[mag |-> 100, sign |-> 1], [mag |-> 499, sign |-> -1]},
        w \in {[up |-> 0, dn |-> 4999], [up |-> 4999, dn |-> 3]} }

----------------------------------------------------------------------------
(* priceUtils.js                                                           *)

\* Number.prototype.toFixed(2): the sign and the value rounded to cents
ToFixed2(x) ==
    IF x < 0 THEN <<"-", (-x + 5) \div 10>> ELSE <<"", (x + 5) \div 10>>

\* PriceActionDay with high and low taken from the close before the
\* zero-height nudge
PriceActionDay_WicksBeforeNudge(currentData, startData, targetPrice, periodInDays, i, d) ==
    LET totalPriceChange == targetPrice - startData.close
        direction == IF totalPriceChange > 0 THEN "up" ELSE "down"
        open == currentData.close
        absDrift == (Abs(totalPriceChange) * 3) \div (periodInDays * 2)
        moved == IF direction = "up"
                 THEN open + absDrift + d.move
                 ELSE open - absDrift + d.move
        pinned == IF i = periodInDays - 1 THEN targetPrice ELSE moved
        close == IF ToFixed2(pinned) = ToFixed2(open)
                 THEN pinned + d.nudge * d.sign
                 ELSE pinned
        high == Max(open, pinned) + d.up
        low == Min(open, pinned) - d.dn
    IN  [date |-> currentData.date + 1,
         open |-> Max(PriceFloor, open),
         high |-> Max(PriceFloor, high),
         low |-> Max(PriceFloor, low),
         close |-> Max(PriceFloor, close)]

\* PriceActionDay with every date counted from the start candle
PriceActionDay_DateFromStart(currentData, startData, targetPrice, periodInDays, i, d) ==
    LET totalPriceChange == targetPrice - startData.close
        direction == IF totalPriceChange > 0 THEN "up" ELSE "down"
        open == currentData.close
        absDrift == (Abs(totalPriceChange) * 3) \div (periodInDays * 2)
        moved == IF direction = "up"
                 THEN open + absDrift + d.move
                 ELSE open - absDrift + d.move
        pinned == IF i = periodInDays - 1 THEN targetPrice ELSE moved
        close == IF ToFixed2(pinned) = ToFixed2(open)
                 THEN pinned + d.nudge * d.sign
                 ELSE pinned
        high == Max(open, close) + d.up
        low == Min(open, close) - d.dn
    IN  [date |-> startData.date + 1,
         open |-> Max(PriceFloor, open),
         high |-> Max(PriceFloor, high),
         low |-> Max(PriceFloor, low),
         close |-> Max(PriceFloor, close)]

\* the body of the for loop of generatePriceAction, iteration i (from 0)
PriceActionDay(currentData, startData, targetPrice, periodInDays, i, d) ==
    LET totalPriceChange == targetPrice - startData.close
        direction == IF totalPriceChange > 0 THEN "up" ELSE "down"
        newDate == currentData.date + 1
        open == currentData.close
        absDrift == (Abs(totalPriceChange) * 3) \div (periodInDays * 2)
        moved == IF direction = "up"
                 THEN open + absDrift + d.move
                 ELSE open - absDrift + d.move
        pinned == IF i = periodInDays - 1 THEN targetPrice ELSE moved
        close == IF ToFixed2(pinned) = ToFixed2(open)
                 THEN pinned + d.nudge * d.sign
                 ELSE pinned
        high == Max(open, close) + d.up
        low == Min(open, close) - d.dn
    IN  [date |-> newDate,
         open |-> Max(PriceFloor, open),
         high |-> Max(PriceFloor, high),
         low |-> Max(PriceFloor, low),
         close |-> Max(PriceFloor, close)]

RECURSIVE PriceActionLoop(_, _, _, _, _, _, _)
PriceActionLoop(i, currentData, priceActionData, startData, targetPrice, periodInDays, draws) ==
    IF i < periodInDays
    THEN LET newDataPoint ==
                 PriceActionDay(currentData, startData, targetPrice, periodInDays, i, draws[i + 1])
         IN  PriceActionLoop(i + 1, newDataPoint, Append(priceActionData, newDataPoint),
                             startData, targetPrice, periodInDays, draws)
    ELSE priceActionData

generatePriceAction(startData, targetPrice, periodInDays, draws) ==
    PriceActionLoop(0, startData, <<>>, startData, targetPrice, periodInDays, draws)

\* the body of the for loop of generateInitialData, iteration i (from 0)
InitialDay(lastClose, today, days, i, d) ==
    LET date == today - (days - i)
        open == lastClose
        close == open + d.delta
        high == Max(open, close) + d.up
        low == Min(open, close) - d.dn
    IN  [date |-> date, open |-> open, high |-> high, low |-> low, close |-> close]

RECURSIVE InitialLoop(_, _, _, _, _, _)
InitialLoop(i, lastClose, initialData, today, days, draws) ==
    IF i < days
    THEN LET c == InitialDay(lastClose, today, days, i, draws[i + 1])
         IN  InitialLoop(i + 1, Max(InitFloor, c.close), Append(initialData, c),
                         today, days, draws)
    ELSE initialData

generateInitialData(days, startingPrice, today, draws) ==
    InitialLoop(0, startingPrice, <<>>, today, days, draws)

----------------------------------------------------------------------------
(* chartUtils.js                                                           *)

SeqMin(s) == CHOOSE m \in {s[k] : k \in 1..Len(s)} : \A k \in 1..Len(s) : m <= s[k]
SeqMax(s) == CHOOSE m \in {s[k] : k \in 1..Len(s)} : \A k \in 1..Len(s) : m >= s[k]

calculateYDomain(d) ==
    LET allHigh == [k \in 1..Len(d) |-> d[k].high]
        allLow == [k \in 1..Len(d) |-> d[k].low]
        minPrice == SeqMin(allLow)
        maxPrice == SeqMax(allHigh)
        padding == (maxPrice - minPrice) \div PaddingDiv
    IN  <<Max(PriceFloor, minPrice - padding), maxPrice + padding>>

NoChart == [initialized |-> FALSE, nodes |-> <<>>, renders |-> 0]
NoCrosshair == [display |-> "absent", x |-> 0, y |-> 0, labelX |-> 0]
NoListeners == [registered |-> FALSE, innerWidth |-> 0, innerHeight |-> 0]

\* initializeChart: the svg is emptied, the groups are appended, the crosshair
\* group is appended with display none (the size attributes of the svg are
\* not part of the model)
initializeChart ==
    [chart |-> [initialized |-> TRUE, nodes |-> <<>>, renders |-> 0],
     crosshair |-> [display |-> "none", x |-> 0, y |-> 0, labelX |-> 0]]

\* setupCrosshair: svg.on("mousemove", ...) and svg.on("mouseleave", ...)
\* replace the listeners; the new ones close over innerWidth and innerHeight
setupCrosshair(innerWidth, innerHeight) ==
    [registered |-> TRUE, innerWidth |-> innerWidth, innerHeight |-> innerHeight]

\* the mousemove listener with strict bounds
OnMouseMove_StrictBounds(ch, ls, mx, my) ==
    IF mx > 0 /\ mx < ls.innerWidth /\ my > 0 /\ my < ls.innerHeight
    THEN [display |-> "shown", x |-> mx, y |-> my,
          labelX |-> Min(ls.innerWidth - LabelInset, Max(LabelInset, mx))]
    ELSE [ch EXCEPT !.display = "none"]

\* the mousemove listener; [mx, my] = d3.pointer(event, g.node());
\* style("display", null) shows the group
OnMouseMove(ch, ls, mx, my) ==
    IF mx >= 0 /\ mx <= ls.innerWidth /\ my >= 0 /\ my <= ls.innerHeight
    THEN [display |-> "shown", x |-> mx, y |-> my,
          labelX |-> Min(ls.innerWidth - LabelInset, Max(LabelInset, mx))]
    ELSE [ch EXCEPT !.display = "none"]

\* the mouseleave listener
OnMouseLeave(ch) == [ch EXCEPT !.display = "none"]

\* the keys of a sequence of nodes or of data: (d) => d.date
Keys(s) == {s[k].date : k \in 1..Len(s)}

\* JoinByKey without the key function: nodes and data are matched by index
JoinByIndex(nodes, d) ==
    LET both == Min(Len(nodes), Len(d))
    IN  [update |-> {nodes[i].date : i \in 1..both},
         exit |-> {nodes[i].date : i \in (both + 1)..Len(nodes)},
         enter |-> {d[j].date : j \in (both + 1)..Len(d)}]

\* selectAll("g.candle").data(data, (d) => d.date), for nodes with distinct
\* keys and data with distinct keys: a node and the datum with its key are
\* bound, the other nodes exit, the other data enter
JoinByKey(nodes, d) ==
    LET nodeKeys == Keys(nodes)
        dataKeys == Keys(d)
    IN  [update |-> {k \in nodeKeys : k \in dataKeys},
         exit |-> {k \in nodeKeys : k \notin dataKeys},
         enter |-> {k \in dataKeys : k \notin nodeKeys}]

\* renderCandles on the nodes of .candles-container: exiting nodes start the
\* 200 ms fade that ends with remove(), bound nodes are kept and re-drawn,
\* entering data get a new g.candle appended, drawn at once when isAnimating
\* is false and collapsed at the open (growing for 400 ms) when it is true;
\* serial numbers the call
renderCandles(nodes, d, animating, serial) ==
    LET join == JoinByKey(nodes, d)
        kept == [i \in 1..Len(nodes) |->
                    IF nodes[i].date \in join.exit
                    THEN [nodes[i] EXCEPT !.fade = ExitFadeMs]
                    ELSE nodes[i]]
        entering == SelectSeq(d, LAMBDA c : c.date \in join.enter)
        appended == [k \in 1..Len(entering) |->
                        [date |-> entering[k].date,
                         mode |-> IF animating THEN "animated" ELSE "immediate",
                         born |-> serial,
                         fade |-> 0]]
    IN  [nodes |-> kept \o appended,
         call |-> [serial |-> serial,
                   animating |-> animating,
                   before |-> Keys(nodes),
                   data |-> Keys(d),
                   enter |-> join.enter,
                   update |-> join.update,
                   exit |-> join.exit]]

----------------------------------------------------------------------------
(* StockMarketSimulator.jsx                                                *)

\* Array.prototype.slice(-n)
SliceLast(s, n) == SubSeq(s, Max(Len(s) - n, 0) + 1, Len(s))

\* AppendToWindow keeping 60 candles of the previous window
AppendToWindow_KeepSixty(prevData, newDataPoint) ==
    Append(SliceLast(prevData, WindowKeep + 1), newDataPoint)

\* setData((prevData) => [...prevData.slice(-59), newDataPoint])
AppendToWindow(prevData, newDataPoint) ==
    Append(SliceLast(prevData, WindowKeep), newDataPoint)

\* FutureData without the forward path
FutureData_WindowOnly(d, newPriceAction) == SliceLast(d, DomainTail)

\* futureData = [...data.slice(-50), ...newPriceAction]
FutureData(d, newPriceAction) == SliceLast(d, DomainTail) \o newPriceAction

TargetPrice(direction, lastDataPoint) ==
    IF direction = "up"
    THEN lastDataPoint.close + PriceChange
    ELSE Max(PriceFloor, lastDataPoint.close - PriceChange)

\* ScheduleReveals with the first candle due at once: index * 400
ScheduleReveals_FromZero(newPriceAction, runId) ==
    [k \in 1..Len(newPriceAction) |->
        [run |-> runId, index |-> k - 1, len |-> Len(newPriceAction),
         candle |-> newPriceAction[k], due |-> (k - 1) * StepDelayMs]]

\* ScheduleReveals with the delays counted from the end of the path
ScheduleReveals_Reversed(newPriceAction, runId) ==
    [k \in 1..Len(newPriceAction) |->
        [run |-> runId, index |-> k - 1, len |-> Len(newPriceAction),
         candle |-> newPriceAction[k],
         due |-> (Len(newPriceAction) - k + 1) * StepDelayMs]]

\* the setTimeout calls of newPriceAction.forEach, in creation order
ScheduleReveals(newPriceAction, runId) ==
    [k \in 1..Len(newPriceAction) |->
        [run |-> runId, index |-> k - 1, len |-> Len(newPriceAction),
         candle |-> newPriceAction[k], due |-> k * StepDelayMs]]

\* the draws of one run: one draw for the final day, one for the days before
RunDrawSeqs ==
    { [k \in 1..Period |-> IF k = Period THEN b ELSE a] :
        a \in RunDraws, b \in RunDraws }

\* the draws of the initial series: the same draw every day, or two draws
\* taking turns
InitDrawSeqs ==
    { [k \in 1..DefaultDays |-> IF k % 2 = 1 THEN a ELSE b] :
        a \in InitDraws, b \in InitDraws }

NoRun == [id |-> 0, direction |-> "none", lastClose |-> 0, targetPrice |-> 0,
          path |-> <<>>, window |-> <<>>, domain |-> <<>>]
NoCall == [fn |-> "none"]
NoContainer == [attached |-> FALSE, width |-> 0, height |-> 0]
NoPointer == [type |-> "none"]
NoRender == [serial |-> 0]

\* what getBoundingClientRect() returns for the container: the laid-out box
\* (w-full h-64), or an empty box
LaidOut == [attached |-> TRUE, width |-> 800, height |-> 256]
ContainerSizes == {[attached |-> TRUE, width |-> 0, height |-> 0], LaidOut}

\* EffectYDomain computing the domain from the data at every run
EffectYDomain_Recalculated(d, yd) == calculateYDomain(d)

\* currentYDomain = yDomain || calculateYDomain(data); if (!yDomain)
\* setYDomain(currentYDomain): the yDomain state after the effect
EffectYDomain(d, yd) == IF yd = Null THEN calculateYDomain(d) ELSE yd

\* one run of the useEffect callback on the scene (ch, cross, ls), with the
\* container as measured and the state values of the render it belongs to
RenderEffect(ch, cross, ls, size, d, yd, animating) ==
    IF ~size.attached \/ Len(d) = 0
    THEN [yDomain |-> yd, chart |-> ch, crosshair |-> cross, listeners |-> ls,
          log |-> [width |-> size.width, height |-> size.height,
                   steps |-> {}, render |-> NoRender]]
    ELSE LET width == size.width
             height == size.height
             innerWidth == width - MarginLeft - MarginRight
             innerHeight == height - MarginTop - MarginBottom
             g == IF ch.initialized
                  THEN [chart |-> ch, crosshair |-> cross]
                  ELSE initializeChart
             drawn == renderCandles(g.chart.nodes, d, animating, g.chart.renders + 1)
         IN  [yDomain |-> EffectYDomain(d, yd),
              chart |-> [g.chart EXCEPT !.nodes = drawn.nodes, !.renders = @ + 1],
              crosshair |-> g.crosshair,
              listeners |-> setupCrosshair(innerWidth, innerHeight),
              log |-> [width |-> width, height |-> height,
                       steps |-> (IF EffectYDomain(d, yd) # yd THEN {"setYDomain"} ELSE {})
                                   \cup (IF ch.initialized THEN {} ELSE {"initializeChart"})
                                   \cup {"setupCrosshair", "updateAxes", "renderCandles"},
                       render |-> drawn.call]]

\* React commits the state (d, yd, animating) and runs the effect, which
\* measures the container as size; a setYDomain made by the effect commits
\* again and the effect runs once more
Commit(size, d, yd, animating) ==
    LET e1 == RenderEffect(chart, crosshair, listeners, size, d, yd, animating)
        e2 == RenderEffect(e1.chart, e1.crosshair, e1.listeners, size,
                           d, e1.yDomain, animating)
        again == e1.yDomain # yd
        e == IF again THEN e2 ELSE e1
    IN  /\ container' = size
        /\ yDomain' = e.yDomain
        /\ chart' = e.chart
        /\ crosshair' = e.crosshair
        /\ listeners' = e.listeners
        /\ effects' = IF again THEN <<e1.log, e2.log>> ELSE <<e1.log>>

\* the component after useState(...) x 3, before its first effect
InitComponent ==
    /\ entry = "component"
    /\ \E draws \in InitDrawSeqs :
          data = generateInitialData(DefaultDays, DefaultStartingPrice, Today, draws)
    /\ isAnimating = FALSE
    /\ yDomain = Null
    /\ timers = <<>>
    /\ run = NoRun
    /\ revealLog = <<>>
    /\ lastOp = "init"
    /\ genCall = NoCall
    /\ genOut = <<>>
    /\ container = NoContainer
    /\ chart = NoChart
    /\ effects = <<>>
    /\ elapsed = 0
    /\ crosshair = NoCrosshair
    /\ listeners = NoListeners
    /\ pointer = NoPointer

\* nothing mounted, nothing called yet
InitIdle ==
    /\ data = <<>>
    /\ isAnimating = FALSE
    /\ yDomain = Null
    /\ timers = <<>>
    /\ run = NoRun
    /\ revealLog = <<>>
    /\ lastOp = "init"
    /\ genCall = NoCall
    /\ genOut = <<>>
    /\ container = NoContainer
    /\ chart = NoChart
    /\ effects = <<>>
    /\ elapsed = 0
    /\ crosshair = NoCrosshair
    /\ listeners = NoListeners
    /\ pointer = NoPointer

\* the module priceUtils alone
InitPriceUtils == entry = "priceUtils" /\ InitIdle

\* an svg with no chart in it yet
InitChartUtils == entry = "chartUtils" /\ InitIdle

Init == InitComponent \/ InitPriceUtils \/ InitChartUtils

\* the effect of the first render; the container may not be laid out yet
MountEffect ==
    /\ entry = "component"
    /\ lastOp = "init"
    /\ \E size \in ContainerSizes : Commit(size, data, yDomain, isAnimating)
    /\ lastOp' = "effect"
    /\ UNCHANGED <<entry, data, isAnimating, timers, run, revealLog, genVars,
                   elapsed, pointer>>

\* handlePriceAction past its guard: generate the path, store the domain,
\* schedule the reveals; then the render with the new flag and domain
StartRun(direction, draws) ==
    /\ LET lastDataPoint == data[Len(data)]
           targetPrice == TargetPrice(direction, lastDataPoint)
           newPriceAction == generatePriceAction(lastDataPoint, targetPrice, Period, draws)
           newYDomain == calculateYDomain(FutureData(data, newPriceAction))
       IN  /\ isAnimating' = TRUE
           /\ Commit(LaidOut, data, newYDomain, TRUE)
           /\ timers' = timers \o ScheduleReveals(newPriceAction, run.id + 1)
           /\ run' = [id |-> run.id + 1, direction |-> direction,
                      lastClose |-> lastDataPoint.close, targetPrice |-> targetPrice,
                      path |-> newPriceAction, window |-> data, domain |-> newYDomain]
    /\ elapsed' = 0
    /\ lastOp' = "trigger"
    /\ UNCHANGED <<entry, data, revealLog, genVars, pointer>>

\* if (isAnimating) return;
IgnoreCall ==
    /\ lastOp' = "rejected"
    /\ effects' = <<>>
    /\ UNCHANGED <<entry, data, isAnimating, yDomain, timers, run, revealLog, genVars,
                   container, chart, elapsed, pointerVars>>

\* handlePriceAction without its guard
handlePriceAction_NoGuard(direction) ==
    \E draws \in RunDrawSeqs : StartRun(direction, draws)

\* the draws are those of the Math.random() calls of generatePriceAction
handlePriceAction(direction) ==
    IF isAnimating
    THEN IgnoreCall
    ELSE \E draws \in RunDrawSeqs : StartRun(direction, draws)

\* a click on "Price Up" or "Price Down", or any other call of the handler;
\* the effect of the first render has run before any event is handled
Trigger ==
    /\ entry = "component"
    /\ lastOp # "init"
    /\ isAnimating \/ run.id < MaxRuns
    /\ \E direction \in {"up", "down"} : handlePriceAction(direction)

MinDue == SeqMin([k \in 1..Len(timers) |-> timers[k].due])

\* the exit transitions under way, and the shortest time one still has to run
Fading == {i \in 1..Len(chart.nodes) : chart.nodes[i].fade > 0}
MinFade == CHOOSE m \in {chart.nodes[i].fade : i \in Fading} :
               \A i \in Fading : m <= chart.nodes[i].fade

\* the time one Tick lets pass: no further than the next timer that is due or
\* the next exit transition that ends
TickStep ==
    Min(TickMs, Min(IF timers # <<>> THEN MinDue ELSE TickMs,
                    IF Fading # {} THEN MinFade ELSE TickMs))

\* time passes; an exit transition that ends removes its node
Tick ==
    LET step == TickStep
        fading == Fading # {}
    IN  /\ timers # <<>> \/ fading
        /\ timers # <<>> => MinDue > 0
        /\ timers' = [k \in 1..Len(timers) |-> [timers[k] EXCEPT !.due = @ - step]]
        /\ chart' = IF fading
                    THEN [chart EXCEPT !.nodes =
                            LET left == SelectSeq(chart.nodes,
                                                  LAMBDA n : n.fade = 0 \/ n.fade > step)
                            IN  [i \in 1..Len(left) |->
                                    IF left[i].fade > 0
                                    THEN [left[i] EXCEPT !.fade = @ - step]
                                    ELSE left[i]]]
                    ELSE chart
        /\ elapsed' = IF timers # <<>> THEN elapsed + step ELSE elapsed
        /\ effects' = <<>>
        /\ lastOp' = "tick"
        /\ UNCHANGED <<entry, data, isAnimating, yDomain, run, revealLog, genVars,
                       container, pointerVars>>

\* the timers that are due; the event loop runs the one created first
FirstDue == CHOOSE k \in 1..Len(timers) :
                /\ timers[k].due = 0
                /\ \A j \in 1..(k - 1) : timers[j].due # 0

\* RevealCallback that never clears the flag
RevealCallback_NeverClears(t) ==
    /\ data' = AppendToWindow(data, t.candle)
    /\ isAnimating' = isAnimating
    /\ revealLog' = Append(revealLog, <<t.run, t.index>>)

\* RevealCallback that clears the flag with the first candle of the path
RevealCallback_ClearsOnFirst(t) ==
    /\ data' = AppendToWindow(data, t.candle)
    /\ isAnimating' = IF t.index = 0 THEN FALSE ELSE isAnimating
    /\ revealLog' = Append(revealLog, <<t.run, t.index>>)

\* the setTimeout callback of handlePriceAction
RevealCallback(t) ==
    /\ data' = AppendToWindow(data, t.candle)
    /\ isAnimating' = IF t.index = t.len - 1 THEN FALSE ELSE isAnimating
    /\ revealLog' = Append(revealLog, <<t.run, t.index>>)

\* a timer fires: its callback runs, then React commits the state updates of
\* the callback together and the effect runs once with the new state
Reveal ==
    /\ timers # <<>>
    /\ MinDue = 0
    /\ RevealCallback(timers[FirstDue])
    /\ Commit(LaidOut, data', yDomain, isAnimating')
    /\ timers' = [k \in 1..(Len(timers) - 1) |->
                     IF k < FirstDue THEN timers[k] ELSE timers[k + 1]]
    /\ lastOp' = "reveal"
    /\ UNCHANGED <<entry, run, genVars, elapsed, pointer>>

----------------------------------------------------------------------------
(* Direct calls of the exported generators.                                *)

\* how a call of generatePriceAction ends: the function holds no throw
\* statement and no test of its arguments, so it returns for every
\* periodInDays and every numeric targetPrice
PriceActionOutcome(periodInDays, targetPrice) == "returned"

StartCandles ==
    { [date |-> Today, open |-> c, high |-> c, low |-> c, close |-> c] :
        c \in {PriceFloor, 4000, 100000} }
TargetPrices == {PriceFloor, 100000, 100003, 120000}

CallGeneratePriceAction ==
    /\ entry = "priceUtils"
    /\ genCall = NoCall
    /\ \E startData \in StartCandles, targetPrice \in TargetPrices, periodInDays \in -1..MaxSteps :
         \E draws \in [1..periodInDays -> PathDraws] :
            /\ genCall' = [fn |-> "generatePriceAction", startData |-> startData,
                           targetPrice |-> targetPrice, periodInDays |-> periodInDays,
                           outcome |-> PriceActionOutcome(periodInDays, targetPrice)]
            /\ genOut' = generatePriceAction(startData, targetPrice, periodInDays, draws)
    /\ lastOp' = "call"
    /\ UNCHANGED <<entry, data, isAnimating, yDomain, timers, run, revealLog,
                   container, chart, effects, elapsed, pointerVars>>

CallGenerateInitialData ==
    /\ entry = "priceUtils"
    /\ genCall = NoCall
    /\ \E days \in 1..MaxDays, startingPrice \in {InitFloor, DefaultStartingPrice} :
         \E draws \in [1..days -> InitDraws \cup {InitFlat}] :
            /\ genCall' = [fn |-> "generateInitialData", days |-> days,
                           startingPrice |-> startingPrice]
            /\ genOut' = generateInitialData(days, startingPrice, Today, draws)
    /\ lastOp' = "call"
    /\ UNCHANGED <<entry, data, isAnimating, yDomain, timers, run, revealLog,
                   container, chart, effects, elapsed, pointerVars>>

----------------------------------------------------------------------------
(* A chart set up directly, and the pointer events of its svg.             *)

\* positions of the pointer relative to the plot group, around the bounds of
\* the plot of the laid-out container (680 x 196)
PointerXs == {-1, 0, 340, 680, 681}
PointerYs == {-1, 0, 196, 197}

\* what the effect does to the svg: initializeChart if the svg has no group
\* yet, then setupCrosshair with the inner size of the container
SetupChart ==
    /\ entry = "chartUtils"
    /\ \E size \in ContainerSizes :
          LET g == IF chart.initialized
                   THEN [chart |-> chart, crosshair |-> crosshair]
                   ELSE initializeChart
          IN  /\ container' = size
              /\ chart' = g.chart
              /\ crosshair' = g.crosshair
              /\ listeners' = setupCrosshair(size.width - MarginLeft - MarginRight,
                                             size.height - MarginTop - MarginBottom)
    /\ lastOp' = "setup"
    /\ UNCHANGED <<entry, data, isAnimating, yDomain, timers, run, revealLog, genVars,
                   effects, elapsed, pointer>>

\* a mousemove event on the svg
MouseMove ==
    /\ entry = "chartUtils"
    /\ listeners.registered
    /\ \E mx \in PointerXs, my \in PointerYs :
          /\ crosshair' = OnMouseMove(crosshair, listeners, mx, my)
          /\ pointer' = [type |-> "mousemove", x |-> mx, y |-> my]
    /\ lastOp' = "mousemove"
    /\ UNCHANGED <<entry, data, isAnimating, yDomain, timers, run, revealLog, genVars,
                   container, chart, effects, elapsed, listeners>>

\* a mouseleave event on the svg
MouseLeave ==
    /\ entry = "chartUtils"
    /\ listeners.registered
    /\ crosshair' = OnMouseLeave(crosshair)
    /\ pointer' = [type |-> "mouseleave"]
    /\ lastOp' = "mouseleave"
    /\ UNCHANGED <<entry, data, isAnimating, yDomain, timers, run, revealLog, genVars,
                   container, chart, effects, elapsed, listeners>>

Next ==
    \/ MountEffect
    \/ Trigger
    \/ Tick
    \/ Reveal
    \/ CallGeneratePriceAction
    \/ CallGenerateInitialData
    \/ SetupChart
    \/ MouseMove
    \/ MouseLeave

Spec == Init /\ [][Next]_vars

\* the Tick steps that bring a pending timer closer, seen on the clock alone
TimeAdvances ==
    /\ timers # <<>>
    /\ MinDue > 0
    /\ elapsed' = elapsed + TickStep

\* the Reveal steps, seen on the reveal log alone
TimerFires ==
    /\ timers # <<>>
    /\ MinDue = 0
    /\ revealLog' = Append(revealLog, <<timers[FirstDue].run, timers[FirstDue].index>>)

\* timers fire: time passes while a timer is pending, and the event loop runs
\* every callback that is due
FairSpec == Spec /\ WF_elapsed(TimeAdvances) /\ WF_revealLog(TimerFires)

----------------------------------------------------------------------------
(* Properties.                                                             *)

IsPathCall == genCall.fn = "generatePriceAction"
IsInitCall == genCall.fn = "generateInitialData"

\* every candle the generators have produced: the window, the reveals still
\* pending, the path of the last run and the result of a direct call
Produced ==
    {data[k] : k \in 1..Len(data)}
        \cup {timers[k].candle : k \in 1..Len(timers)}
        \cup {run.path[k] : k \in 1..Len(run.path)}
        \cup {genOut[k] : k \in 1..Len(genOut)}

\* C1 (as stated): for a start candle with close >= 0.01, a target >= 0.01
\* and periodInDays >= 1, whatever the draws, the last candle that
\* generatePriceAction returns closes exactly at the target price.
C1_Convergence ==
    (/\ IsPathCall
     /\ genCall.startData.close >= PriceFloor
     /\ genCall.targetPrice >= PriceFloor
     /\ genCall.periodInDays >= 1)
        => genOut[Len(genOut)].close = genCall.targetPrice

\* C2: a call of handlePriceAction while isAnimating is true changes nothing:
\* no new timers, no path, the window, the domain, the flag and the pending
\* reveals (with their delays) stay as they are.
C2_CallWhileAnimatingIsNoOp ==
    [][(isAnimating /\ lastOp' \in {"trigger", "rejected"})
          => /\ lastOp' = "rejected"
             /\ UNCHANGED <<data, isAnimating, yDomain, timers, run, revealLog>>]_vars

C2_Witness ==
    /\ lastOp = "rejected"
    /\ isAnimating
    /\ Len(timers) = 3
    /\ Len(revealLog) = 2

WindowCapacity == WindowKeep + 1

\* what one reveal does to the window: the last (up to 59) candles of the old
\* window, in order, then the revealed candle
FifoStep(old, new, candle) ==
    LET kept == Min(Len(old), WindowCapacity - 1)
    IN  /\ Len(new) = kept + 1
        /\ \A k \in 1..kept : new[k] = old[Len(old) - kept + k]
        /\ new[kept + 1] = candle
        /\ Len(old) = WindowCapacity =>
              /\ Len(new) = WindowCapacity
              /\ \A k \in 2..WindowCapacity : new[k - 1] = old[k]

\* C3: the window never holds more than 60 candles, and every reveal drops
\* exactly the oldest candle of a full window and appends the revealed one,
\* keeping the order of the others.
C3_WindowBoundFifo ==
    /\ [](Len(data) <= WindowCapacity)
    /\ [][lastOp' = "reveal" => FifoStep(data, data', timers[FirstDue].candle)]_vars

C3_Witness ==
    /\ lastOp = "reveal"
    /\ Len(data) = WindowCapacity
    /\ Len(revealLog) = Period + 1
    /\ data[WindowCapacity] = run.path[1]
    /\ data[1] = run.window[2]

InDomain(dom, c) == dom[1] <= c.low /\ c.high <= dom[2]

\* C4: a candle just revealed lies within the domain stored when its run
\* started, and that domain is the one the chart is drawn with.
C4_DomainContainsRevealed ==
    lastOp = "reveal" =>
        /\ yDomain = run.domain
        /\ InDomain(run.domain, data[Len(data)])

C4_Witness ==
    /\ lastOp = "reveal"
    /\ run.direction = "up"
    /\ Len(revealLog) = Period
    /\ data[Len(data)].high > calculateYDomain(run.window)[2]

\* the reveals of run r so far
RevealsOf(r) == Cardinality({k \in 1..Len(revealLog) : revealLog[k][1] = r})

\* C5: the reveal log is run 1 index 0..4, then run 2 index 0..4, and so on:
\* within a run the path is revealed in index order, each candle once, and no
\* reveal of a later run comes before the last reveal of an earlier one; the
\* window ends with the candles of the current run revealed so far.
C5_RevealOrder ==
    /\ \A k \in 1..Len(revealLog) :
          revealLog[k] = <<((k - 1) \div Period) + 1, (k - 1) % Period>>
    /\ run.id > 0 =>
          \A j \in 1..RevealsOf(run.id) :
              data[Len(data) - RevealsOf(run.id) + j] = run.path[j]

C5_Witness ==
    /\ Len(revealLog) = 2 * Period
    /\ revealLog[Period] = <<1, Period - 1>>
    /\ revealLog[Period + 1] = <<2, 0>>
    /\ run.id = 2
    /\ data[Len(data)] = run.path[Period]

\* the run r has revealed its final candle
RunDone(r) == \E k \in 1..Len(revealLog) : revealLog[k] = <<r, Period - 1>>

\* C6: once a trigger is accepted its final candle is eventually revealed and
\* the flag is then false; a reveal clears the flag if and only if it is the
\* reveal of the final candle of the path; a call of the handler made while
\* the flag is false is accepted.
C6_RunCompletes ==
    /\ \A r \in 1..MaxRuns : (run.id = r) ~> (RunDone(r) /\ ~isAnimating)
    /\ [][lastOp' = "reveal" =>
            IF timers[FirstDue].index = timers[FirstDue].len - 1
            THEN ~isAnimating'
            ELSE isAnimating' = isAnimating /\ isAnimating]_vars
    /\ [][(~isAnimating /\ lastOp' \in {"trigger", "rejected"}) =>
            (lastOp' = "trigger" /\ run'.id = run.id + 1)]_vars

C6_Witness ==
    /\ lastOp = "reveal"
    /\ run.id = 1
    /\ RunDone(1)
    /\ ~isAnimating
    /\ timers = <<>>

\* C7: every candle produced has its high at or above open and close and its
\* low at or below them, after the flooring of generatePriceAction.
C7_OhlcOrdering ==
    \A c \in Produced :
        /\ c.high >= Max(c.open, c.close)
        /\ c.low <= Min(c.open, c.close)

\* a candle of the window whose close and low were floored at 0.01
C7_Witness ==
    /\ lastOp = "reveal"
    /\ LET c == data[Len(data)]
       IN  /\ c.open > PriceFloor
           /\ c.close = PriceFloor
           /\ c.low = PriceFloor
           /\ c.high > c.open

\* the candles the claim is about: generateInitialData(60, 100) in the
\* component, and every call of generatePriceAction
ProducedAsUsed ==
    {data[k] : k \in 1..Len(data)}
        \cup {timers[k].candle : k \in 1..Len(timers)}
        \cup {run.path[k] : k \in 1..Len(run.path)}
        \cup (IF IsPathCall THEN {genOut[k] : k \in 1..Len(genOut)} ELSE {})

\* C8 (as stated): open, high, low and close of every candle produced are at
\* least 0.01.
C8_PriceFloor ==
    \A c \in ProducedAsUsed :
        /\ c.open >= PriceFloor
        /\ c.high >= PriceFloor
        /\ c.low >= PriceFloor
        /\ c.close >= PriceFloor

\* C9 (as stated): open and close of every candle produced differ when both
\* are rounded to 2 decimals.
C9_NoZeroHeightBody ==
    \A k \in 1..Len(genOut) : ToFixed2(genOut[k].open) # ToFixed2(genOut[k].close)

OneDayApart(s) == \A k \in 1..(Len(s) - 1) : s[k + 1].date = s[k].date + 1

C11_EndToEndTarget ==
    (run.id > 0 /\ RunDone(run.id)) =>
        /\ run.lastClose = run.window[Len(run.window)].close
        /\ data[Len(data)].close =
              IF run.direction = "up"
              THEN run.lastClose + PriceChange
              ELSE Max(PriceFloor, run.lastClose - PriceChange)

\* the g.candle nodes of the scene that are not fading out
Marks == SelectSeq(chart.nodes, LAMBDA n : n.fade = 0)

\* C12 (as stated): every candle of the initial series (dated before today)
\* was drawn at once by the render that created its node, and every candle
\* revealed by a run (dated today or later), the last of the path included,
\* was created by a render called with isAnimating true, hence collapsed at
\* its open.
C12_EntryMode ==
    \A i \in 1..Len(chart.nodes) :
        chart.nodes[i].mode = IF chart.nodes[i].date < Today THEN "immediate" ELSE "animated"

\* C13: the stored domain changes only in the first effect, when it is null,
\* and in an accepted handlePriceAction call; reveals, rejected calls, ticks
\* and the effect runs of later renders leave it alone, so from the start of
\* a run on it is the domain that run stored.
C13_DomainFrozen ==
    /\ [](run.id > 0 => yDomain = run.domain)
    /\ [][yDomain' # yDomain =>
            \/ lastOp' = "effect" /\ yDomain = Null
            \/ lastOp' = "trigger" /\ run'.id = run.id + 1]_vars

\* a reveal whose effect ran, with a stored domain that is not the domain of
\* the window it drew
C13_Witness ==
    /\ lastOp = "reveal"
    /\ Len(revealLog) = Period
    /\ Len(effects) = 1
    /\ "renderCandles" \in effects[1].steps
    /\ "setYDomain" \notin effects[1].steps
    /\ yDomain = run.domain
    /\ yDomain # calculateYDomain(data)

\* C14 (as stated): the domain stored at the start of a run is
\* calculateYDomain of the whole window at trigger time followed by the whole
\* path, and every candle in the window at any moment of the run lies within
\* the stored domain.
C14_DomainInput ==
    run.id > 0 =>
        /\ run.domain = calculateYDomain(run.window \o run.path)
        /\ \A k \in 1..Len(data) : InDomain(yDomain, data[k])

\* C15 (as stated): a call of generatePriceAction with periodInDays <= 0 ends
\* in an error and returns no candle sequence.
C15_InvalidInputFailsFast ==
    (IsPathCall /\ genCall.periodInDays <= 0) => genCall.outcome = "error"

\* C16 (as stated): an effect run that finds an empty data array, or a
\* container of zero width or zero height, performs no step: it stores no
\* domain, builds no chart, registers no listeners, updates no axis and does
\* not call renderCandles.
C16_RendererNoOp ==
    \A k \in 1..Len(effects) :
        (Len(data) = 0 \/ effects[k].width = 0 \/ effects[k].height = 0) =>
            /\ effects[k].steps = {}
            /\ effects[k].render = NoRender

\* every candle's open is the close of the candle before it
Continuous(s) == \A k \in 1..(Len(s) - 1) : s[k + 1].open = s[k].close

\* C17 (as stated): in the initial series, in every path and in the window
\* every candle opens at the close of the candle before it, and a path opens
\* at the close of its start candle.
C17_PriceContinuity ==
    /\ Continuous(genOut)
    /\ Continuous(run.path)
    /\ Continuous(data)
    /\ (IsPathCall /\ genCall.periodInDays >= 1) => genOut[1].open = genCall.startData.close
    /\ run.id > 0 => run.path[1].open = run.lastClose

\* C18: an accepted call schedules exactly 5 timers, the k-th (k = 1..5) for
\* the k-th candle of the path and due k x 400 ms later; the k-th candle is
\* revealed when k x 400 ms have passed since the call; until 400 ms have
\* passed the window is the window of the call.
C18_RevealSchedule ==
    /\ [][lastOp' = "trigger" =>
            /\ Len(timers') = Period
            /\ \A k \in 1..Period :
                  /\ timers'[k].due = k * StepDelayMs
                  /\ timers'[k].index = k - 1
                  /\ timers'[k].candle = run'.path[k]
            /\ elapsed' = 0]_vars
    /\ [][lastOp' = "reveal" =>
            /\ elapsed = (timers[FirstDue].index + 1) * StepDelayMs
            /\ data'[Len(data')] = run.path[timers[FirstDue].index + 1]]_vars
    /\ [](run.id > 0 =>
            /\ elapsed < StepDelayMs => data = run.window
            /\ elapsed % StepDelayMs # 0 => RevealsOf(run.id) = elapsed \div StepDelayMs
            /\ elapsed % StepDelayMs = 0 =>
                  RevealsOf(run.id) \in {(elapsed \div StepDelayMs) - 1, elapsed \div StepDelayMs})

\* the third reveal of the second run, 1200 ms after its trigger
C18_Witness ==
    /\ lastOp = "reveal"
    /\ run.id = 2
    /\ RevealsOf(2) = 3
    /\ elapsed = 3 * StepDelayMs
    /\ Len(timers) = Period - 3
    /\ data[Len(data)] = run.path[3]

\* the renderCandles calls of the last operation
Renders == {effects[k].render : k \in {j \in 1..Len(effects) : effects[j].render # NoRender}}

\* C19: each renderCandles call splits the keys into entering (in the data,
\* not in the scene), continuing (in both) and exiting (in the scene, not in
\* the data); a continuing candle keeps the node it had; the nodes that are
\* not fading out are, one for one, the candles of the window; a reveal on a
\* full window makes exactly the revealed candle enter and exactly the oldest
\* candle exit.
C19_KeyedReconciliation ==
    /\ [](\A r \in Renders :
            /\ r.enter = r.data \ r.before
            /\ r.update = r.data \cap r.before
            /\ r.exit = r.before \ r.data
            /\ \A i \in 1..Len(chart.nodes) :
                  /\ chart.nodes[i].date \in r.update => chart.nodes[i].born < r.serial
                  /\ chart.nodes[i].date \in r.exit => chart.nodes[i].fade > 0)
    /\ [](chart.initialized =>
            /\ Len(Marks) = Len(data)
            /\ \A k \in 1..Len(data) : Marks[k].date = data[k].date)
    /\ [][(lastOp' = "reveal" /\ Len(data) = WindowCapacity) =>
            /\ Len(effects') = 1
            /\ effects'[1].render.enter = {timers[FirstDue].candle.date}
            /\ effects'[1].render.exit = {data[1].date}
            /\ effects'[1].render.update = {data[k].date : k \in 2..Len(data)}]_vars

\* the first reveal of the second run: one node created, 59 kept, the oldest
\* one fading out
C19_Witness ==
    /\ lastOp = "reveal"
    /\ Len(revealLog) = Period + 1
    /\ Len(chart.nodes) = WindowCapacity + 1
    /\ chart.nodes[1].fade = ExitFadeMs
    /\ chart.nodes[1].date = Today - DefaultDays + Period
    /\ chart.nodes[WindowCapacity + 1].born = effects[1].render.serial
    /\ chart.nodes[WindowCapacity].born < effects[1].render.serial
    /\ Cardinality(effects[1].render.update) = WindowCapacity - 1

\* the plot area of the container as last measured: innerWidth, innerHeight
PlotWidth == container.width - MarginLeft - MarginRight
PlotHeight == container.height - MarginTop - MarginBottom

\* C20: the crosshair is not displayed before the first pointer event; a
\* mousemove displays it if its position relative to the plot group has
\* 0 <= x <= innerWidth and 0 <= y <= innerHeight and hides it otherwise, a
\* mouseleave hides it, and nothing else shows or hides it: it is displayed
\* exactly if the most recent pointer event was a mousemove within the bounds.
C20_CrosshairVisibility ==
    /\ [](pointer = NoPointer => crosshair.display # "shown")
    /\ [](lastOp = "mousemove" =>
            (crosshair.display = "shown" <=>
                /\ 0 <= pointer.x /\ pointer.x <= PlotWidth
                /\ 0 <= pointer.y /\ pointer.y <= PlotHeight))
    /\ [](lastOp = "mouseleave" => crosshair.display = "none")
    /\ [][lastOp' \notin {"mousemove", "mouseleave"} =>
            /\ pointer' = pointer
            /\ \/ crosshair'.display = crosshair.display
               \/ crosshair.display = "absent" /\ crosshair'.display = "none"]_vars

\* the pointer has left the plot through its right edge: the crosshair was
\* shown on the edge and is now hidden
C20_Witness ==
    /\ lastOp = "mousemove"
    /\ pointer.x = PlotWidth + 1
    /\ pointer.y = PlotHeight
    /\ crosshair.display = "none"
    /\ crosshair.x = PlotWidth
    /\ crosshair.y = PlotHeight

\* C21: in every state isAnimating is true exactly when a scheduled reveal has
\* not fired yet: true while a timer of the run is pending (the reveals of
\* the run so far are fewer than its path), false when none is; and no reveal
\* fires in a state where isAnimating is false.
C21_FlagMatchesPendingReveals ==
    /\ [](/\ timers # <<>> => isAnimating
          /\ timers = <<>> => ~isAnimating
          /\ run.id > 0 =>
                /\ Len(timers) = Len(run.path) - RevealsOf(run.id)
                /\ \A k \in 1..Len(timers) : timers[k].run = run.id)
    /\ [][revealLog' # revealLog => isAnimating /\ timers # <<>>]_vars

\* the second run after the first has ended: its fourth reveal has fired with
\* the flag set, its last reveal is pending and the flag is still set
C21_Witness ==
    /\ lastOp = "reveal"
    /\ run.id = 2
    /\ RevealsOf(1) = Period
    /\ RevealsOf(2) = Period - 1
    /\ Len(timers) = 1
    /\ isAnimating

====
